---------------------------- MODULE Spec2Model ----------------------------
(***************************************************************************)
(* Merkle root / proof generation scripts of the settlement batching layer *)
(*   batch/generateBatchRoot.py, batch/generateBatchRootDeploy.py          *)
(*   whitelist/generateRoot.py, whitelist/generateWhitelistRootDeploy.py   *)
(*                                                                         *)
(* Byte strings are sequences of integers, compared as Python compares     *)
(* bytes (lexicographically).  keccak256 is a collision-free constructor:  *)
(* the digest of s is <<0>> \o s, and every other 32-byte value is a       *)
(* one-element sequence <<n>> with n >= 1, so digests of different inputs  *)
(* differ and a digest never equals a plain value.                         *)
(***************************************************************************)
EXTENDS Integers, Sequences, FiniteSets, TLC

\* longest leaf list the caller builds
MaxLeaves == 5
\* proof indices are requested from -MaxIndex .. MaxLeaves + 2
MaxIndex == 4

\* plain 32-byte values handed in as leaves
LeafValues == {<<1>>, <<2>>, <<3>>}

Scripts == {"batch", "whitelist", "deploy"}

---------------------------------------------------------------------------
(* Python runtime *)

\* a < b on bytes
RECURSIVE BytesLess(_, _)
BytesLess(a, b) ==
    IF a = <<>> THEN b # <<>>
    ELSE IF b = <<>> THEN FALSE
    ELSE IF Head(a) # Head(b) THEN Head(a) < Head(b)
    ELSE BytesLess(Tail(a), Tail(b))

\* lst[i] of a Python list: negative i counts from the end, out of range raises
PyInRange(lst, i) == -Len(lst) <= i /\ i < Len(lst)
PyGet(lst, i) == IF i >= 0 THEN lst[i + 1] ELSE lst[Len(lst) + i + 1]

\* i ^ 1 on Python integers (two's complement, any sign)
Xor1(i) == IF i % 2 = 0 THEN i + 1 ELSE i - 1

\* eth_utils.keccak / Web3.solidity_keccak(['bytes32','bytes32'], [a, b])
keccak(s) == <<0>> \o s

\* b'\x00' * 32
ZeroRoot == <<0>>

\* results of calls that may raise
Ok(v) == [err |-> "", val |-> v]
Raise(e) == [err |-> e, val |-> <<>>]

---------------------------------------------------------------------------
(* batch/generateBatchRoot.py, class MerkleTree (the same class is in      *)
(* batch/generateBatchRootDeploy.py)                                       *)

\* the for loop of _build_tree without the sorting of the pair
RECURSIVE MerkleTree_next_level_unsorted(_, _)
MerkleTree_next_level_unsorted(current, i) ==
    IF i >= Len(current) THEN <<>>
    ELSE LET combined ==
                 IF i + 1 < Len(current)
                 THEN keccak(current[i + 1] \o current[i + 2])
                 ELSE current[i + 1]
         IN <<combined>> \o MerkleTree_next_level_unsorted(current, i + 2)

\* the for loop of _build_tree without the promotion of an unpaired node
RECURSIVE MerkleTree_next_level_pairs_only(_, _)
MerkleTree_next_level_pairs_only(current, i) ==
    IF i + 1 >= Len(current) THEN <<>>
    ELSE LET left == current[i + 1]
             right == current[i + 2]
             combined == IF BytesLess(right, left)
                         THEN keccak(right \o left)
                         ELSE keccak(left \o right)
         IN <<combined>> \o MerkleTree_next_level_pairs_only(current, i + 2)

\* one pass of the for loop of _build_tree over the layer `current`
RECURSIVE MerkleTree_next_level(_, _)
MerkleTree_next_level(current, i) ==
    IF i >= Len(current) THEN <<>>
    ELSE LET combined ==
                 IF i + 1 < Len(current)
                 THEN LET left == current[i + 1]
                          right == current[i + 2]
                      IN IF BytesLess(right, left)
                         THEN keccak(right \o left)
                         ELSE keccak(left \o right)
                 ELSE current[i + 1]
         IN <<combined>> \o MerkleTree_next_level(current, i + 2)

\* the while loop of _build_tree: the layers appended after `current`
RECURSIVE MerkleTree_build_loop(_)
MerkleTree_build_loop(current) ==
    IF Len(current) > 1
    THEN LET nxt == MerkleTree_next_level(current, 0)
         IN <<nxt>> \o MerkleTree_build_loop(nxt)
    ELSE <<>>

\* _build_tree: the list of layers
MerkleTree_build_tree(leaves) ==
    IF leaves = <<>> THEN << <<>> >>
    ELSE <<leaves>> \o MerkleTree_build_loop(leaves)

\* get_root on the layers t
MerkleTree_get_root(t) ==
    IF t # <<>> /\ t[Len(t)] # <<>> THEN Ok(t[Len(t)][1]) ELSE Ok(ZeroRoot)

\* get_proof: the loop body from `level` on, with the running idx
RECURSIVE MerkleTree_proof_loop(_, _, _)
MerkleTree_proof_loop(t, level, idx) ==
    IF level >= Len(t) - 1 THEN Ok(<<>>)
    ELSE LET curr == t[level + 1]
             rest == MerkleTree_proof_loop(t, level + 1, idx \div 2)
         IN IF idx % 2 = 0
            THEN IF idx + 1 < Len(curr)
                 THEN IF ~PyInRange(curr, idx + 1) THEN Raise("IndexError")
                      ELSE IF rest.err # "" THEN rest
                      ELSE Ok(<<PyGet(curr, idx + 1)>> \o rest.val)
                 ELSE rest
            ELSE IF ~PyInRange(curr, idx - 1) THEN Raise("IndexError")
                 ELSE IF rest.err # "" THEN rest
                 ELSE Ok(<<PyGet(curr, idx - 1)>> \o rest.val)

\* get_proof taking index as a 1-based position
MerkleTree_get_proof_one_based(t, index) == MerkleTree_proof_loop(t, 0, index + 1)

MerkleTree_get_proof(t, index) == MerkleTree_proof_loop(t, 0, index)

\* verify_proof
RECURSIVE MerkleTree_verify_fold(_, _)
MerkleTree_verify_fold(computed, proof) ==
    IF proof = <<>> THEN computed
    ELSE LET p == Head(proof)
         IN MerkleTree_verify_fold(
                IF ~BytesLess(p, computed) THEN keccak(computed \o p)
                ELSE keccak(p \o computed),
                Tail(proof))

MerkleTree_verify_proof(leaf, proof, root) ==
    MerkleTree_verify_fold(leaf, proof) = root

---------------------------------------------------------------------------
(* whitelist/generateRoot.py *)

hash_pair(a, b) ==
    IF BytesLess(a, b) THEN keccak(a \o b) ELSE keccak(b \o a)

\* the for loop of build_tree over the layer cur
RECURSIVE build_tree_next(_, _)
build_tree_next(cur, i) ==
    IF i >= Len(cur) THEN <<>>
    ELSE LET l == cur[i + 1]
             r == IF i + 1 < Len(cur) THEN cur[i + 2] ELSE cur[i + 1]
         IN <<hash_pair(l, r)>> \o build_tree_next(cur, i + 2)

\* the while loop of build_tree: the layers appended after cur
RECURSIVE build_tree_loop(_)
build_tree_loop(cur) ==
    IF Len(cur) > 1
    THEN LET nxt == build_tree_next(cur, 0)
         IN <<nxt>> \o build_tree_loop(nxt)
    ELSE <<>>

build_tree(leaves) == <<leaves>> \o build_tree_loop(leaves)

\* proof(layers, idx): the loop over layers[:-1] from position k on
RECURSIVE proof_loop(_, _, _)
proof_loop(layers, k, idx) ==
    IF k >= Len(layers) - 1 THEN Ok(<<>>)
    ELSE LET layer == layers[k + 1]
             sib == Xor1(idx)
             rest == proof_loop(layers, k + 1, idx \div 2)
         IN IF sib < Len(layer)
            THEN IF ~PyInRange(layer, sib) THEN Raise("IndexError")
                 ELSE IF rest.err # "" THEN rest
                 ELSE Ok(<<PyGet(layer, sib)>> \o rest.val)
            ELSE rest

proof(layers, idx) == proof_loop(layers, 0, idx)

RECURSIVE verify_sorted_fold(_, _)
verify_sorted_fold(h, pf) ==
    IF pf = <<>> THEN h
    ELSE LET p == Head(pf)
         IN verify_sorted_fold(
                IF BytesLess(h, p) THEN keccak(h \o p) ELSE keccak(p \o h),
                Tail(pf))

verify_sorted(leaf, pf, rt) == verify_sorted_fold(leaf, pf) = rt

\* rt = layers[-1][0] in __main__
generateRoot_rt(layers) ==
    IF layers = <<>> \/ layers[Len(layers)] = <<>> THEN Raise("IndexError")
    ELSE Ok(layers[Len(layers)][1])

---------------------------------------------------------------------------
(* whitelist/generateWhitelistRootDeploy.py *)

\* Python's None where a root is expected
None == <<-1>>

RECURSIVE merkle_tree_next(_, _)
merkle_tree_next(layer, i) ==
    IF i >= Len(layer) THEN <<>>
    ELSE LET left == layer[i + 1]
             right == IF i + 1 < Len(layer) THEN layer[i + 2] ELSE layer[i + 1]
             combined == IF BytesLess(right, left)
                         THEN keccak(right \o left)
                         ELSE keccak(left \o right)
         IN <<combined>> \o merkle_tree_next(layer, i + 2)

RECURSIVE merkle_tree_loop(_)
merkle_tree_loop(layer) ==
    IF Len(layer) > 1
    THEN LET next_layer == merkle_tree_next(layer, 0)
         IN <<next_layer>> \o merkle_tree_loop(next_layer)
    ELSE <<>>

merkle_tree(leaves) == <<leaves>> \o merkle_tree_loop(leaves)

merkle_root(t) ==
    IF t = <<>> THEN Ok(None)
    ELSE IF t[Len(t)] = <<>> THEN Raise("IndexError")
    ELSE Ok(t[Len(t)][1])

\* merkle_proof: sibling = layer[pair_index] and node = layer[index] are both read
RECURSIVE merkle_proof_loop(_, _, _)
merkle_proof_loop(t, k, index) ==
    IF k >= Len(t) - 1 THEN Ok(<<>>)
    ELSE LET layer == t[k + 1]
             pair_index == Xor1(index)
             rest == merkle_proof_loop(t, k + 1, index \div 2)
         IN IF pair_index < Len(layer)
            THEN IF ~PyInRange(layer, pair_index) \/ ~PyInRange(layer, index)
                 THEN Raise("IndexError")
                 ELSE IF rest.err # "" THEN rest
                 ELSE Ok(<<PyGet(layer, pair_index)>> \o rest.val)
            ELSE rest

merkle_proof(t, index) == merkle_proof_loop(t, 0, index)

RECURSIVE verify_proof_fold(_, _)
verify_proof_fold(computed_hash, proof_) ==
    IF proof_ = <<>> THEN computed_hash
    ELSE LET sibling == Head(proof_)
         IN verify_proof_fold(
                IF BytesLess(sibling, computed_hash)
                THEN keccak(sibling \o computed_hash)
                ELSE keccak(computed_hash \o sibling),
                Tail(proof_))

verify_proof(leaf, proof_, root) == verify_proof_fold(leaf, proof_) = root

---------------------------------------------------------------------------
(* Integers wider than the checker's: sign and magnitude, the magnitude as *)
(* five big-endian digits of 16 bits (80 bits), compared digit by digit.   *)

Wide(d4, d3, d2, d1, d0) == [neg |-> FALSE, mag |-> <<d4, d3, d2, d1, d0>>]
Neg(w) == [w EXCEPT !.neg = TRUE]

\* a <= b
WideLeq(a, b) ==
    IF a.neg /\ ~b.neg THEN TRUE
    ELSE IF ~a.neg /\ b.neg THEN FALSE
    ELSE IF a.neg THEN ~BytesLess(a.mag, b.mag)
    ELSE ~BytesLess(b.mag, a.mag)

\* a + k for a >= 0 and a small k >= 0
RECURSIVE MagAdd(_, _)
MagAdd(mag, k) ==
    IF mag = <<>> THEN <<>>
    ELSE LET n == Len(mag)
             sum == mag[n] + k
         IN MagAdd(SubSeq(mag, 1, n - 1), sum \div 65536) \o <<sum % 65536>>

WideAdd(a, k) == [a EXCEPT !.mag = MagAdd(a.mag, k)]

WideZero == Wide(0, 0, 0, 0, 0)
\* 2**64 - 1, 2**48 - 1, 2**32 - 1
UINT64_MAX == Wide(0, 65535, 65535, 65535, 65535)
UINT48_MAX == Wide(0, 0, 65535, 65535, 65535)
UINT32_MAX == Wide(0, 0, 0, 65535, 65535)

\* the bytes an integer contributes to the packed encoding
WideBytes(w) == (IF w.neg THEN <<-1>> ELSE <<>>) \o w.mag

---------------------------------------------------------------------------
(* batch/generateBatchRoot.py and batch/generateBatchRootDeploy.py:        *)
(* leaf hashing and the generation pipeline                                *)

\* an address string: the 20-byte value it spells and how it is spelled
Address(id, form) == [id |-> id, form |-> form]

\* Web3.to_checksum_address
to_checksum_address(a) ==
    IF a.form = "invalid" THEN Raise("InvalidAddress")
    ELSE Ok(Address(a.id, "checksum"))

\* ensure_uint_bounds: the message of the ValueError raised, "" when none
ensure_uint_bounds(nonce, timestamp, recipient_count) ==
    IF ~(WideLeq(WideZero, nonce) /\ WideLeq(nonce, UINT64_MAX))
    THEN "nonce exceeds uint64"
    ELSE IF ~(WideLeq(WideZero, timestamp) /\ WideLeq(timestamp, UINT48_MAX))
    THEN "timestamp exceeds uint48"
    ELSE IF ~(WideLeq(WideZero, recipient_count) /\ WideLeq(recipient_count, UINT32_MAX))
    THEN "recipient_count exceeds uint32"
    ELSE ""

\* whether Web3.solidity_keccak is handed a uint64/uint48/uint32 value that
\* does not fit its type
OutOfType(tx) ==
    \/ ~(WideLeq(WideZero, tx.nonce) /\ WideLeq(tx.nonce, UINT64_MAX))
    \/ ~(WideLeq(WideZero, tx.timestamp) /\ WideLeq(tx.timestamp, UINT48_MAX))
    \/ ~(WideLeq(WideZero, tx.recipient_count) /\ WideLeq(tx.recipient_count, UINT32_MAX))

\* Web3.solidity_keccak over the eight packed fields.  The library is not
\* part of the repository: on a value that does not fit its type it either
\* raises its own TypeError (strict) or digests what it encoded.
solidity_keccak(from_, to_, tx, strict) ==
    IF OutOfType(tx) /\ strict THEN Raise("TypeError")
    ELSE Ok(keccak(<<from_.id, to_.id, tx.amount>>
                   \o WideBytes(tx.nonce) \o WideBytes(tx.timestamp)
                   \o WideBytes(tx.recipient_count)
                   \o <<tx.tx_type, tx.batch_salt>>))

\* calculate_tx_hash with batch_id packed after recipient_count
calculate_tx_hash_with_batch_id(tx, strict) ==
    LET f == to_checksum_address(tx.from_address)
        t == to_checksum_address(tx.to_address)
    IN IF f.err # "" THEN Raise(f.err)
       ELSE IF t.err # "" THEN Raise(t.err)
       ELSE IF OutOfType(tx) /\ strict THEN Raise("TypeError")
       ELSE Ok(keccak(<<f.val.id, t.val.id, tx.amount>>
                      \o WideBytes(tx.nonce) \o WideBytes(tx.timestamp)
                      \o WideBytes(tx.recipient_count)
                      \o <<tx.batch_id, tx.tx_type, tx.batch_salt>>))

\* calculate_tx_hash of generateBatchRoot.py
calculate_tx_hash(tx, strict) ==
    LET f == to_checksum_address(tx.from_address)
        t == to_checksum_address(tx.to_address)
    IN IF f.err # "" THEN Raise(f.err)
       ELSE IF t.err # "" THEN Raise(t.err)
       ELSE solidity_keccak(f.val, t.val, tx, strict)

\* calculate_tx_hash of generateBatchRootDeploy.py
Deploy_calculate_tx_hash(tx, strict) ==
    LET e == ensure_uint_bounds(tx.nonce, tx.timestamp, tx.recipient_count)
        f == to_checksum_address(tx.from_address)
        t == to_checksum_address(tx.to_address)
    IN IF e # "" THEN Raise(e)
       ELSE IF f.err # "" THEN Raise(f.err)
       ELSE IF t.err # "" THEN Raise(t.err)
       ELSE solidity_keccak(f.val, t.val, tx, strict)

BatchScripts == {"generateBatchRoot", "generateBatchRootDeploy"}

TxHashOf(s, tx, strict) ==
    IF s = "generateBatchRoot" THEN calculate_tx_hash(tx, strict)
    ELSE Deploy_calculate_tx_hash(tx, strict)

\* '0x' + b.hex()
Hex0x(b) == [hex |-> b]
HexList(bs) == [k \in 1..Len(bs) |-> Hex0x(bs[k])]

---------------------------------------------------------------------------
(* The caller of a tree: it fills a list of leaves, constructs a tree of   *)
(* one of the scripts from it and queries the tree.  Lists are objects:    *)
(* heap[k] is the content of list object k, heap[1] is the caller's list,  *)
(* and tree is the list of layers as references into the heap.             *)

VARIABLES script, heap, tree, pc, last, orig, swap,
          bscript, strict, gen, hashed, wl, bld

vars == <<script, heap, tree, pc, last, orig, swap, bscript, strict, gen, hashed, wl, bld>>

\* the state of the batch scripts
batchVars == <<bscript, strict, gen, hashed>>

\* the state of a tree and its caller
treeVars == <<script, heap, tree, pc, last, orig, swap>>

\* the caller's list object
CALLER == 1

NoCall == [op |-> "none", index |-> 0, leaf |-> <<>>, err |-> "",
           root |-> <<>>, proof |-> <<>>, valid |-> FALSE]

NoSwap == [done |-> FALSE, i |-> 0, j |-> 0, before |-> <<>>,
           root0 |-> <<>>, root1 |-> <<>>,
           proofs0 |-> <<>>, proofs1 |-> <<>>]

\* a run of generate_merkle_data / generate_batch
IdleRun == [pc |-> "start", transactions |-> <<>>, leaves |-> <<>>,
            tree |-> <<>>, root |-> <<>>, proofs_data |-> <<>>, err |-> "",
            merkle_root |-> Hex0x(<<>>), tx_count |-> 0]

NoHash == [done |-> FALSE, tx |-> <<>>, res |-> Ok(<<>>), res2 |-> Ok(<<>>)]

\* a run of a whitelist script on a list of addresses and on a permutation
\* of it: nothing has run
NoWhitelist == [pc |-> "idle", wscript |-> "generateRoot",
                whitelist |-> <<>>, runs |-> <<>>]

\* the build loop of a tree: nothing is being built
NoBuild == [pc |-> "idle", builder |-> "batch", leaves |-> <<>>, tree |-> <<>>]

\* no batch script runs
BatchIdle ==
    /\ bscript = "generateBatchRoot"
    /\ strict = FALSE
    /\ gen = <<[IdleRun EXCEPT !.pc = "idle"], [IdleRun EXCEPT !.pc = "idle"]>>
    /\ hashed = NoHash

Init ==
    /\ script \in Scripts
    /\ heap = << <<>> >>
    /\ tree = <<>>
    /\ pc = "new"
    /\ last = NoCall
    /\ orig = <<>>
    /\ swap = NoSwap
    /\ BatchIdle
    /\ wl = NoWhitelist
    /\ bld = NoBuild

\* the layers of the tree, read through the references
Layers == [k \in 1..Len(tree) |-> heap[tree[k]]]

\* the number of leaves the tree was built from
LeafCount == Len(orig)

\* leaves.append(v) before the tree is built
AppendLeaf(v) ==
    /\ pc = "new"
    /\ Len(heap[CALLER]) < MaxLeaves
    /\ heap' = [heap EXCEPT ![CALLER] = Append(@, v)]
    /\ UNCHANGED <<script, tree, pc, last, orig, swap, bscript, strict, gen, hashed, wl, bld>>

\* the layers the script's builder computes from leaves
BuildLayers(s, leaves) ==
    CASE s = "batch" -> MerkleTree_build_tree(leaves)
      [] s = "whitelist" -> build_tree(leaves)
      [] s = "deploy" -> merkle_tree(leaves)

\* which list object becomes layer 0: batch `tree = [leaves]` and deploy
\* `tree = [leaves]` keep the caller's list itself, batch `return [[]]` and
\* whitelist `layers = [leaves[:]]` make a new list
KeepsCallerList(s, leaves) ==
    CASE s = "batch" -> leaves # <<>>
      [] s = "whitelist" -> FALSE
      [] s = "deploy" -> TRUE

\* MerkleTree(leaves) / build_tree(leaves) / merkle_tree(leaves)
Construct ==
    /\ pc = "new"
    /\ LET leaves == heap[CALLER]
           layers == BuildLayers(script, leaves)
       IN IF KeepsCallerList(script, leaves)
          THEN /\ heap' = <<leaves>> \o Tail(layers)
               /\ tree' = [k \in 1..Len(layers) |-> k]
          ELSE /\ heap' = <<leaves>> \o layers
               /\ tree' = [k \in 1..Len(layers) |-> k + 1]
    /\ orig' = heap[CALLER]
    /\ pc' = "built"
    /\ UNCHANGED <<script, last, swap, bscript, strict, gen, hashed, wl, bld>>

\* the script's root read
RootOf(s, t) ==
    CASE s = "batch" -> MerkleTree_get_root(t)
      [] s = "whitelist" -> generateRoot_rt(t)
      [] s = "deploy" -> merkle_root(t)

\* the script's proof generator
ProofOf(s, t, index) ==
    CASE s = "batch" -> MerkleTree_get_proof(t, index)
      [] s = "whitelist" -> proof(t, index)
      [] s = "deploy" -> merkle_proof(t, index)

\* the script's verifier
VerifyOf(s, leaf, pf, rt) ==
    CASE s = "batch" -> MerkleTree_verify_proof(leaf, pf, rt)
      [] s = "whitelist" -> verify_sorted(leaf, pf, rt)
      [] s = "deploy" -> verify_proof(leaf, pf, rt)

\* tree.get_root() / layers[-1][0] / merkle_root(tree)
GetRoot ==
    /\ pc = "built"
    /\ LET r == RootOf(script, Layers)
       IN last' = [NoCall EXCEPT !.op = "root", !.err = r.err, !.root = r.val]
    /\ UNCHANGED <<script, heap, tree, pc, orig, swap, bscript, strict, gen, hashed, wl, bld>>

\* tree.get_proof(index) / proof(layers, index) / merkle_proof(tree, index)
GetProof(index) ==
    /\ pc = "built"
    /\ LET r == ProofOf(script, Layers, index)
       IN last' = [NoCall EXCEPT !.op = "proof", !.index = index,
                                 !.err = r.err, !.proof = r.val]
    /\ UNCHANGED <<script, heap, tree, pc, orig, swap, bscript, strict, gen, hashed, wl, bld>>

\* values a caller may present as a leaf: the plain values and digests of pairs
VerifyLeaves == LeafValues \cup {keccak(v \o v) : v \in LeafValues}

\* verify(leaf, proof for index, root) with the proof and root just read
Verify(leaf, index) ==
    /\ pc = "built"
    /\ LET r == RootOf(script, Layers)
           p == ProofOf(script, Layers, index)
       IN /\ r.err = "" /\ p.err = ""
          /\ last' = [NoCall EXCEPT !.op = "verify", !.index = index,
                                    !.leaf = leaf, !.root = r.val,
                                    !.proof = p.val,
                                    !.valid = VerifyOf(script, leaf, p.val, r.val)]
    /\ UNCHANGED <<script, heap, tree, pc, orig, swap, bscript, strict, gen, hashed, wl, bld>>

Indices == (0 - MaxIndex) .. (MaxLeaves + 2)

Next ==
    \/ \E v \in LeafValues : AppendLeaf(v)
    \/ Construct
    \/ GetRoot
    \/ \E index \in Indices : GetProof(index)
    \/ \E leaf \in VerifyLeaves : \E index \in 0..(LeafCount - 1) : Verify(leaf, index)

Spec == Init /\ [][Next]_vars

---------------------------------------------------------------------------
(* The caller keeps its list after the tree is built and writes to it.     *)

\* leaves[k] = v after the tree is built (the first write to the list)
CallerSetItem(k, v) ==
    /\ pc = "built"
    /\ heap[CALLER] = orig
    /\ k \in 1..Len(heap[CALLER])
    /\ heap[CALLER][k] # v
    /\ heap' = [heap EXCEPT ![CALLER][k] = v]
    /\ UNCHANGED <<script, tree, pc, last, orig, swap, bscript, strict, gen, hashed, wl, bld>>

NextCaller ==
    \/ \E v \in LeafValues : AppendLeaf(v)
    \/ Construct
    \/ \E k \in 1..MaxLeaves : \E v \in LeafValues : CallerSetItem(k, v)
    \/ GetRoot
    \/ \E index \in 0..(LeafCount - 1) : GetProof(index)
    \/ \E index \in 0..(LeafCount - 1) : Verify(orig[index + 1], index)

SpecCaller == Init /\ [][NextCaller]_vars

---------------------------------------------------------------------------
(* The caller swaps two leaves of its list and builds the tree again.      *)

\* leaves[i], leaves[j] = leaves[j], leaves[i]
SwapItems(lst, i, j) ==
    [k \in 1..Len(lst) |->
        IF k = i + 1 THEN lst[j + 1] ELSE IF k = j + 1 THEN lst[i + 1] ELSE lst[k]]

\* read root and the proofs of positions i and j, swap, rebuild, read them again
SwapRebuild(i, j) ==
    /\ pc = "built"
    /\ ~swap.done
    /\ 0 <= i /\ i < j /\ j < Len(heap[CALLER])
    /\ LET leaves0 == heap[CALLER]
           leaves1 == SwapItems(leaves0, i, j)
           layers1 == BuildLayers(script, leaves1)
       IN /\ IF KeepsCallerList(script, leaves1)
             THEN /\ heap' = <<leaves1>> \o Tail(layers1)
                  /\ tree' = [k \in 1..Len(layers1) |-> k]
             ELSE /\ heap' = <<leaves1>> \o layers1
                  /\ tree' = [k \in 1..Len(layers1) |-> k + 1]
          /\ orig' = leaves1
          /\ swap' = [done |-> TRUE, i |-> i, j |-> j, before |-> leaves0,
                      root0 |-> RootOf(script, Layers).val,
                      root1 |-> RootOf(script, layers1).val,
                      proofs0 |-> <<ProofOf(script, Layers, i).val,
                                    ProofOf(script, Layers, j).val>>,
                      proofs1 |-> <<ProofOf(script, layers1, i).val,
                                    ProofOf(script, layers1, j).val>>]
    /\ UNCHANGED <<script, pc, last, bscript, strict, gen, hashed, wl, bld>>

NextSwap ==
    \/ \E v \in LeafValues : AppendLeaf(v)
    \/ Construct
    \/ \E i, j \in 0..(MaxLeaves - 1) : SwapRebuild(i, j)

SpecSwap == Init /\ [][NextSwap]_vars

---------------------------------------------------------------------------
(* The batch scripts.  A run either calls calculate_tx_hash on one record  *)
(* or runs the generation pipeline.  To compare inputs that differ only in *)
(* batch_id, gen holds two runs of the pipeline that advance together:     *)
(* gen[1] on the transactions passed, gen[2] on the same transactions with *)
(* other batch_id values; and a call of calculate_tx_hash is recorded with *)
(* the result for the record (res) and for the record with another         *)
(* batch_id (res2).                                                        *)

\* longest transaction list passed to generate_merkle_data
MaxTxs == 3

BATCH_ID == 40
BATCH_SALT == 1
TOKEN_DECIMALS == 6

SENDER == Address(1, "lower")
RECIPIENT == Address(2, "checksum")
INVALID == Address(3, "invalid")

\* TransferData
TransferData(from_address, to_address, amount, nonce, timestamp, recipient_count, batch_id, tx_type, batch_salt) ==
    [from_address |-> from_address, to_address |-> to_address,
     amount |-> amount, nonce |-> nonce, timestamp |-> timestamp,
     recipient_count |-> recipient_count, batch_id |-> batch_id,
     tx_type |-> tx_type, batch_salt |-> batch_salt]

Small(n) == Wide(0, 0, 0, 0, n)

BatchIds == {1, 2}

\* records a caller passes to calculate_tx_hash: every field that is
\* range-checked at, just inside and just outside its bounds
NonceValues == {Neg(Small(1)), WideZero, UINT64_MAX, WideAdd(UINT64_MAX, 1)}
TimestampValues == {Neg(Small(1)), WideZero, UINT48_MAX, WideAdd(UINT48_MAX, 1)}
RecipientCountValues == {Neg(Small(1)), WideZero, UINT32_MAX, WideAdd(UINT32_MAX, 1)}

HashInputs ==
    {TransferData(f, RECIPIENT, 100, n, t, c, 1, 0, 1) :
        f \in {SENDER, INVALID}, n \in NonceValues,
        t \in TimestampValues, c \in RecipientCountValues}

\* records passed to generate_merkle_data: two that hash, one with a nonce
\* of 2**64 and one with an invalid address
TxSamples ==
    {TransferData(SENDER, RECIPIENT, 100, Small(1), Small(7), Small(1), 1, 0, 1),
     TransferData(SENDER, RECIPIENT, 100, Small(2), Small(7), Small(1), 1, 1, 1),
     TransferData(SENDER, RECIPIENT, 100, WideAdd(UINT64_MAX, 1), Small(7), Small(1), 1, 0, 1),
     TransferData(INVALID, RECIPIENT, 100, Small(3), Small(7), Small(1), 1, 0, 1)}

TxLists == UNION {[1..n -> TxSamples] : n \in 0..MaxTxs}

\* int(time.time()): a present-day clock, and clocks 3 and 2 seconds before
\* 2**48
ClockValues == {Wide(0, 0, 0, 25939, 61696),
                Wide(0, 0, 65535, 65535, 65533),
                Wide(0, 0, 65535, 65535, 65534)}

\* the three transfers generate_batch builds
DeployTxs(base_ts) ==
    LET one_token == 10 ^ TOKEN_DECIMALS
        sender_evm == Address(1, "checksum")
        recipient_evm == Address(2, "checksum")
    IN <<TransferData(sender_evm, recipient_evm, 10 * one_token, Small(1),
                      base_ts, Small(1), BATCH_ID, 0, BATCH_SALT),
         TransferData(sender_evm, recipient_evm, 20 * one_token, Small(2),
                      WideAdd(base_ts, 1), Small(1), BATCH_ID, 1, BATCH_SALT),
         TransferData(sender_evm, recipient_evm, 30 * one_token, Small(3),
                      WideAdd(base_ts, 2), Small(3), BATCH_ID, 2, BATCH_SALT)>>

InitBatch ==
    /\ script = "batch"
    /\ heap = << <<>> >>
    /\ tree = <<>>
    /\ pc = "idle"
    /\ last = NoCall
    /\ orig = <<>>
    /\ swap = NoSwap
    /\ bscript \in BatchScripts
    /\ strict \in BOOLEAN
    /\ gen = <<IdleRun, IdleRun>>
    /\ hashed = NoHash
    /\ wl = NoWhitelist
    /\ bld = NoBuild

Started == gen[1].pc # "start" \/ gen[2].pc # "start" \/ hashed.done

\* calculate_tx_hash(tx), and the same call on tx with batch_id = b2
CalculateTxHash(tx, b2) ==
    /\ ~Started
    /\ hashed' = [done |-> TRUE, tx |-> tx,
                  res |-> TxHashOf(bscript, tx, strict),
                  res2 |-> TxHashOf(bscript, [tx EXCEPT !.batch_id = b2], strict)]
    /\ UNCHANGED <<bscript, strict, gen>>
    /\ UNCHANGED <<treeVars, wl, bld>>

\* generate_merkle_data(transactions) is entered
CallGenerateMerkleData(txs, bids) ==
    /\ ~Started
    /\ bscript = "generateBatchRoot"
    /\ gen' = <<[IdleRun EXCEPT !.pc = "hash", !.transactions = txs],
                [IdleRun EXCEPT !.pc = "hash",
                    !.transactions = [k \in 1..Len(txs) |->
                                         [txs[k] EXCEPT !.batch_id = bids[k]]]]>>
    /\ UNCHANGED <<bscript, strict, hashed>>
    /\ UNCHANGED <<treeVars, wl, bld>>

\* generate_batch() is entered and builds its three transfers
CallGenerateBatch(base_ts) ==
    /\ ~Started
    /\ bscript = "generateBatchRootDeploy"
    /\ gen' = <<[IdleRun EXCEPT !.pc = "hash", !.transactions = DeployTxs(base_ts)],
                [IdleRun EXCEPT !.pc = "hash", !.transactions = DeployTxs(base_ts)]>>
    /\ UNCHANGED <<bscript, strict, hashed>>
    /\ UNCHANGED <<treeVars, wl, bld>>

\* [calculate_tx_hash(tx) for tx in txs]: the leaves, or the first error
RECURSIVE HashAll(_, _, _)
HashAll(s, txs, st) ==
    IF txs = <<>> THEN Ok(<<>>)
    ELSE LET h == TxHashOf(s, Head(txs), st)
             rest == HashAll(s, Tail(txs), st)
         IN IF h.err # "" THEN Raise(h.err)
            ELSE IF rest.err # "" THEN rest
            ELSE Ok(<<h.val>> \o rest.val)

\* leaves = [calculate_tx_hash(tx) for tx in transactions]
StepHash(run) ==
    LET r == HashAll(bscript, run.transactions, strict)
    IN IF r.err # "" THEN [run EXCEPT !.pc = "raised", !.err = r.err]
       ELSE [run EXCEPT !.pc = "build", !.leaves = r.val]

\* tree = MerkleTree(leaves)
StepBuild(run) ==
    [run EXCEPT !.pc = "root", !.tree = MerkleTree_build_tree(run.leaves)]

\* root = tree.get_root()
StepRoot(run) ==
    [run EXCEPT !.pc = "proofs", !.root = MerkleTree_get_root(run.tree).val]

\* one proofs_data entry
Entry(s, i, tx, leaf, pf, is_valid) ==
    IF s = "generateBatchRoot"
    THEN [index |-> i, transaction |-> tx, tx_hash |-> Hex0x(leaf),
          proof |-> HexList(pf), valid |-> is_valid]
    ELSE [index |-> i, transaction |-> tx, tx_hash |-> Hex0x(leaf),
          proof |-> HexList(pf)]

\* one iteration of `for i, tx in enumerate(transactions)`
StepProof(run) ==
    LET i == Len(run.proofs_data)
        leaf == run.leaves[i + 1]
        p == MerkleTree_get_proof(run.tree, i)
    IN IF p.err # "" THEN [run EXCEPT !.pc = "raised", !.err = p.err]
       ELSE LET is_valid == MerkleTree_verify_proof(leaf, p.val, run.root)
            IN [run EXCEPT !.proofs_data =
                               Append(@, Entry(bscript, i, run.transactions[i + 1], leaf,
                                               p.val, is_valid))]

\* the return statement
StepReturn(run) ==
    [run EXCEPT !.pc = "done", !.merkle_root = Hex0x(run.root),
                !.tx_count = Len(run.transactions)]

\* the next statement of a run
Step(run) ==
    CASE run.pc = "hash" -> StepHash(run)
      [] run.pc = "build" -> StepBuild(run)
      [] run.pc = "root" -> StepRoot(run)
      [] run.pc = "proofs" ->
            IF Len(run.proofs_data) < Len(run.transactions)
            THEN StepProof(run) ELSE StepReturn(run)
      [] OTHER -> run

\* both runs execute the statement at `at`
Advanced(at) == [r \in 1..2 |-> IF gen[r].pc = at THEN Step(gen[r]) ELSE gen[r]]

At(at) == \E r \in 1..2 : gen[r].pc = at

HashLeaves ==
    /\ At("hash")
    /\ gen' = Advanced("hash")
    /\ UNCHANGED <<bscript, strict, hashed>>
    /\ UNCHANGED <<treeVars, wl, bld>>

BuildTree ==
    /\ At("build")
    /\ gen' = Advanced("build")
    /\ UNCHANGED <<bscript, strict, hashed>>
    /\ UNCHANGED <<treeVars, wl, bld>>

ReadRoot ==
    /\ At("root")
    /\ gen' = Advanced("root")
    /\ UNCHANGED <<bscript, strict, hashed>>
    /\ UNCHANGED <<treeVars, wl, bld>>

ProofsLoop ==
    /\ At("proofs")
    /\ gen' = Advanced("proofs")
    /\ UNCHANGED <<bscript, strict, hashed>>
    /\ UNCHANGED <<treeVars, wl, bld>>

NextBatch ==
    \/ \E tx \in HashInputs : \E b2 \in BatchIds : CalculateTxHash(tx, b2)
    \/ \E txs \in TxLists : \E bids \in [1..Len(txs) -> BatchIds] :
          CallGenerateMerkleData(txs, bids)
    \/ \E base_ts \in ClockValues : CallGenerateBatch(base_ts)
    \/ HashLeaves
    \/ BuildTree
    \/ ReadRoot
    \/ ProofsLoop

SpecBatch == InitBatch /\ [][NextBatch]_vars

---------------------------------------------------------------------------
(* The whitelist scripts, from a list of address strings to the leaves,    *)
(* the root and the proof of each address.  To compare a list with its     *)
(* permutations, wl.runs holds two runs of the script that advance         *)
(* together: wl.runs[2] is given the same addresses in another order.      *)

MaxAddrs == 3

\* a hex address string: the 20-byte value its digits spell, the case of the
\* digits, whether it starts with "0x", whether blanks surround it, and
\* whether the digits are 40 hex digits
HexAddress(id, case, prefix, blanks, hex40) ==
    [id |-> id, case |-> case, prefix |-> prefix, blanks |-> blanks, hex40 |-> hex40]

\* a base58check TRON address string: the 20-byte value it encodes and
\* whether its checksum is right
TronAddress(id, checksum_ok) == [id |-> id, checksum_ok |-> checksum_ok]

\* normalize of generateRoot.py
normalize(addr) ==
    LET stripped == [addr EXCEPT !.blanks = FALSE]
        prefixed == IF ~stripped.prefix THEN [stripped EXCEPT !.prefix = TRUE]
                    ELSE stripped
    IN IF ~prefixed.hex40 THEN Raise("ValueError")
       ELSE Ok([prefixed EXCEPT !.case = "lower"])

\* a < b on two normalized strings: "0x" and 40 lowercase digits each
StrLess(a, b) == a.id < b.id

\* bytes.fromhex(a[2:])
fromhex(a) == <<a.id>>

\* b"\x00" * 12
Zeros12 == <<0>>

\* leaf_hash of generateRoot.py
leaf_hash(addr) ==
    LET a == normalize(addr)
    IN IF a.err # "" THEN Raise(a.err)
       ELSE Ok(keccak(Zeros12 \o fromhex(a.val)))

\* the place of x in an ascending list, after the items that are not greater
RECURSIVE sorted_insert(_, _)
sorted_insert(lst, x) ==
    IF lst = <<>> THEN <<x>>
    ELSE IF StrLess(x, Head(lst)) THEN <<x>> \o lst
    ELSE <<Head(lst)>> \o sorted_insert(Tail(lst), x)

\* sorted(lst)
RECURSIVE sorted(_)
sorted(lst) ==
    IF lst = <<>> THEN <<>>
    ELSE sorted_insert(sorted(SubSeq(lst, 1, Len(lst) - 1)), lst[Len(lst)])

\* the first exception of a list of results, "" when none
RECURSIVE FirstError(_)
FirstError(rs) ==
    IF rs = <<>> THEN ""
    ELSE IF Head(rs).err # "" THEN Head(rs).err
    ELSE FirstError(Tail(rs))

\* build_leaves of generateRoot.py
build_leaves(addrs) ==
    LET normalized == [k \in 1..Len(addrs) |-> normalize(addrs[k])]
        e == FirstError(normalized)
        addrs_sorted == sorted([k \in 1..Len(addrs) |-> normalized[k].val])
    IN IF e # "" THEN Raise(e)
       ELSE Ok([leaves |-> [k \in 1..Len(addrs_sorted) |->
                               leaf_hash(addrs_sorted[k]).val],
                addrs_sorted |-> addrs_sorted])

\* base58.b58decode_check: the version byte 0x41 and the 20 bytes
b58decode_check(tron_addr) ==
    IF ~tron_addr.checksum_ok THEN Raise("ValueError")
    ELSE Ok(<<65, tron_addr.id>>)

\* tron_to_evm_bytes32 of generateWhitelistRootDeploy.py
tron_to_evm_bytes32(tron_addr) ==
    LET raw == b58decode_check(tron_addr)
    IN IF raw.err # "" THEN Raise(raw.err)
       ELSE Ok(Zeros12 \o Tail(raw.val))

\* keccak(tron_to_evm_bytes32(addr))
Deploy_leaf(addr) ==
    LET b == tron_to_evm_bytes32(addr)
    IN IF b.err # "" THEN Raise(b.err) ELSE Ok(keccak(b.val))

\* leaves = [keccak(tron_to_evm_bytes32(addr)) for addr in whitelist]
Deploy_leaves(whitelist) ==
    LET hashed_ == [k \in 1..Len(whitelist) |-> Deploy_leaf(whitelist[k])]
        e == FirstError(hashed_)
    IN IF e # "" THEN Raise(e)
       ELSE Ok([leaves |-> [k \in 1..Len(whitelist) |-> hashed_[k].val],
                addrs_sorted |-> whitelist])

\* lst.index(v), for a v that is in lst
leaves_index(lst, v) == (CHOOSE k \in 1..Len(lst) :
                     lst[k] = v /\ \A j \in 1..(k - 1) : lst[j] # v) - 1

WhitelistScripts == {"generateRoot", "generateWhitelistRootDeploy"}

AddressIds == 1..3

\* the address strings a whitelist of the script may hold
AddressSamples(s) ==
    IF s = "generateRoot"
    THEN {HexAddress(id, "lower", TRUE, FALSE, TRUE) : id \in AddressIds}
         \cup {HexAddress(1, "mixed", TRUE, FALSE, TRUE),
               HexAddress(2, "mixed", FALSE, TRUE, TRUE),
               HexAddress(3, "lower", TRUE, FALSE, FALSE)}
    ELSE {TronAddress(id, TRUE) : id \in AddressIds} \cup {TronAddress(3, FALSE)}

\* a run of a whitelist script's module-level code
NewRun(addrs) == [whitelist |-> addrs, err |-> "", leaves |-> <<>>,
                  addrs_sorted |-> <<>>, layers |-> <<>>, root |-> <<>>,
                  proofs |-> <<>>]

\* leaves, addrs_sorted = build_leaves(whitelist) / leaves = [...]
RunLeaves(s, run) ==
    LET r == IF s = "generateRoot" THEN build_leaves(run.whitelist)
             ELSE Deploy_leaves(run.whitelist)
    IN IF r.err # "" THEN [run EXCEPT !.err = r.err]
       ELSE [run EXCEPT !.leaves = r.val.leaves, !.addrs_sorted = r.val.addrs_sorted]

\* layers = build_tree(leaves); rt = layers[-1][0] /
\* tree = merkle_tree(leaves); root = merkle_root(tree)
RunTree(s, run) ==
    LET layers == IF s = "generateRoot" THEN build_tree(run.leaves)
                  ELSE merkle_tree(run.leaves)
        rt == IF s = "generateRoot" THEN generateRoot_rt(layers)
              ELSE merkle_root(layers)
    IN IF run.err # "" THEN run
       ELSE IF rt.err # "" THEN [run EXCEPT !.layers = layers, !.err = rt.err]
       ELSE [run EXCEPT !.layers = layers, !.root = rt.val]

\* the loop over addrs_sorted / test_addresses: the leaf of the address,
\* its index in leaves, its proof and the verification of the proof
RunProofs(s, run) ==
    LET one(addr) ==
            LET lf == IF s = "generateRoot" THEN leaf_hash(addr).val
                      ELSE Deploy_leaf(addr).val
                idx == leaves_index(run.leaves, lf)
                pf == IF s = "generateRoot" THEN proof(run.layers, idx)
                      ELSE merkle_proof(run.layers, idx)
            IN [addr |-> addr.id, err |-> pf.err, proof |-> pf.val,
                ok |-> IF s = "generateRoot"
                       THEN verify_sorted(lf, pf.val, run.root)
                       ELSE verify_proof(lf, pf.val, run.root)]
        entries == [k \in 1..Len(run.addrs_sorted) |-> one(run.addrs_sorted[k])]
    IN IF run.err # "" THEN run
       ELSE [run EXCEPT !.proofs = entries, !.err = FirstError(entries)]

\* the orders a list of n items can be given in
Orders(n) == {p \in [1..n -> 1..n] : \A i, j \in 1..n : p[i] = p[j] => i = j}

InitWhitelist ==
    /\ script = "whitelist"
    /\ heap = << <<>> >>
    /\ tree = <<>>
    /\ pc = "idle"
    /\ last = NoCall
    /\ orig = <<>>
    /\ swap = NoSwap
    /\ BatchIdle
    /\ \E s \in WhitelistScripts : wl = [NoWhitelist EXCEPT !.pc = "input", !.wscript = s]
    /\ bld = NoBuild

\* one more address in the whitelist of the script
AddAddress(a) ==
    /\ wl.pc = "input"
    /\ Len(wl.whitelist) < MaxAddrs
    /\ a \in AddressSamples(wl.wscript)
    /\ wl' = [wl EXCEPT !.whitelist = Append(@, a)]
    /\ UNCHANGED <<treeVars, batchVars, bld>>

\* the script builds the leaves of the whitelist, and of the same addresses
\* in the order p
WhitelistLeaves(p) ==
    /\ wl.pc = "input"
    /\ p \in Orders(Len(wl.whitelist))
    /\ wl' = [wl EXCEPT !.pc = "leaves",
                        !.runs = <<RunLeaves(wl.wscript, NewRun(wl.whitelist)),
                                   RunLeaves(wl.wscript,
                                       NewRun([k \in 1..Len(wl.whitelist) |->
                                                  wl.whitelist[p[k]]]))>>]
    /\ UNCHANGED <<treeVars, batchVars, bld>>

\* the script builds the tree and reads the root
WhitelistTree ==
    /\ wl.pc = "leaves"
    /\ wl' = [wl EXCEPT !.pc = "tree",
                        !.runs = [r \in 1..2 |-> RunTree(wl.wscript, wl.runs[r])]]
    /\ UNCHANGED <<treeVars, batchVars, bld>>

\* the script computes and verifies the proof of each address
WhitelistProofs ==
    /\ wl.pc = "tree"
    /\ wl' = [wl EXCEPT !.pc = "done",
                        !.runs = [r \in 1..2 |-> RunProofs(wl.wscript, wl.runs[r])]]
    /\ UNCHANGED <<treeVars, batchVars, bld>>

NextWhitelist ==
    \/ \E s \in WhitelistScripts : \E a \in AddressSamples(s) : AddAddress(a)
    \/ \E n \in 0..MaxAddrs : \E p \in Orders(n) : WhitelistLeaves(p)
    \/ WhitelistTree
    \/ WhitelistProofs

SpecWhitelist == InitWhitelist /\ [][NextWhitelist]_vars

---------------------------------------------------------------------------
(* The build loop of a tree, one iteration of the while loop at a time.    *)

\* the lists of leaves a builder may be called with
RECURSIVE LeafLists(_)
LeafLists(n) ==
    IF n = 0 THEN {<<>>}
    ELSE LeafLists(n - 1)
         \cup {Append(l, v) : l \in {m \in LeafLists(n - 1) : Len(m) = n - 1},
                              v \in LeafValues}

\* the body of the while loop: the layer made from the last one
NextLayer(s, current) ==
    CASE s = "batch" -> MerkleTree_next_level(current, 0)
      [] s = "whitelist" -> build_tree_next(current, 0)
      [] s = "deploy" -> merkle_tree_next(current, 0)

InitBuild ==
    /\ script = "batch"
    /\ heap = << <<>> >>
    /\ tree = <<>>
    /\ pc = "idle"
    /\ last = NoCall
    /\ orig = <<>>
    /\ swap = NoSwap
    /\ BatchIdle
    /\ wl = NoWhitelist
    /\ \E s \in Scripts : \E leaves \in LeafLists(MaxLeaves) :
          bld = [pc |-> "call", builder |-> s, leaves |-> leaves, tree |-> <<>>]

\* the statements before the while loop: `if not leaves: return [[]]` in the
\* batch class, `tree = [leaves]` / `layers = [leaves[:]]`
BuildEnter ==
    /\ bld.pc = "call"
    /\ IF bld.builder = "batch" /\ bld.leaves = <<>>
       THEN bld' = [bld EXCEPT !.pc = "done", !.tree = << <<>> >>]
       ELSE bld' = [bld EXCEPT !.pc = "while", !.tree = <<bld.leaves>>]
    /\ UNCHANGED <<treeVars, batchVars, wl>>

\* one iteration of the while loop: the test holds and a layer is appended
BuildIteration ==
    /\ bld.pc = "while"
    /\ Len(bld.tree[Len(bld.tree)]) > 1
    /\ bld' = [bld EXCEPT !.tree = Append(@, NextLayer(bld.builder, bld.tree[Len(bld.tree)]))]
    /\ UNCHANGED <<treeVars, batchVars, wl>>

\* the test of the while loop fails: return tree
BuildReturn ==
    /\ bld.pc = "while"
    /\ ~(Len(bld.tree[Len(bld.tree)]) > 1)
    /\ bld' = [bld EXCEPT !.pc = "done"]
    /\ UNCHANGED <<treeVars, batchVars, wl>>

NextBuild ==
    \/ BuildEnter
    \/ BuildIteration
    \/ BuildReturn

\* the interpreter runs the next statement of the builder
SpecBuild == InitBuild /\ [][NextBuild]_vars /\ WF_vars(NextBuild)

---------------------------------------------------------------------------
(* Claims about the tree engine *)

\* C1: verifying L[i] against the proof generated for index i and the root
\* of the tree built from L returns true, for each of the three scripts.
C1_ProofVerifies ==
    (last.op = "verify" /\ last.leaf = orig[last.index + 1]) => last.valid

\* C2: in every layer of odd length that has a next layer, the last element
\* of the next layer is the last element of the layer itself (the unpaired
\* node is promoted unchanged), for each of the three builders.
C2_OddNodePromoted ==
    pc = "built" =>
        \A k \in 1..(Len(tree) - 1) :
            Len(Layers[k]) % 2 = 1 =>
                Layers[k + 1][Len(Layers[k + 1])] = Layers[k][Len(Layers[k])]

\* C3: a proof requested from get_proof (batch) or proof (whitelist) of a
\* tree of at least one leaf, for an index outside [0, leafCount), raises an
\* out-of-range error.
C3_OutOfRangeRaises ==
    (/\ last.op = "proof"
     /\ script \in {"batch", "whitelist"}
     /\ LeafCount >= 1
     /\ (last.index < 0 \/ last.index >= LeafCount))
        => last.err = "IndexError"

\* C4: the root read of a tree built from the empty leaf sequence is the
\* sentinel of 32 zero bytes and raises nothing, for each of the three scripts.
C4_EmptyRootIsZero ==
    (last.op = "root" /\ orig = <<>>) => (last.err = "" /\ last.root = ZeroRoot)

\* C8: a built tree is immutable: get_root and get_proof keep returning what
\* they return for the leaf sequence passed to the constructor, for the whole
\* life of the tree, also after the caller has written to the list it passed.
C8_TreeImmutable ==
    pc = "built" =>
        /\ last.op = "root" =>
               (/\ last.err = RootOf(script, BuildLayers(script, orig)).err
                /\ last.root = RootOf(script, BuildLayers(script, orig)).val)
        /\ last.op = "proof" =>
               last.proof = ProofOf(script, BuildLayers(script, orig), last.index).val

\* C9 as stated: after swapping two (different) leaves and rebuilding, the
\* root is the one before the swap and the proofs of both positions differ
\* from the ones before.
C9_SwapKeepsRoot ==
    (swap.done /\ swap.before[swap.i + 1] # swap.before[swap.j + 1]) =>
        /\ swap.root1 = swap.root0
        /\ swap.proofs1[1] # swap.proofs0[1]
        /\ swap.proofs1[2] # swap.proofs0[2]

\* C9 amended: after swapping two leaves of different value and rebuilding,
\* the proofs of both positions differ from the ones before, and the root is
\* the one before the swap when the two positions form one pair (j = i XOR 1).
C9_SwapChangesProofs ==
    (swap.done /\ swap.before[swap.i + 1] # swap.before[swap.j + 1]) =>
        /\ swap.proofs1[1] # swap.proofs0[1]
        /\ swap.proofs1[2] # swap.proofs0[2]
        /\ swap.j = Xor1(swap.i) => swap.root1 = swap.root0

\* a swap of two different leaves of one pair, and one of two different
\* leaves of different pairs that changes the root, have both been made
C9_Witness ==
    /\ swap.done
    /\ swap.before[swap.i + 1] # swap.before[swap.j + 1]
    /\ swap.j = Xor1(swap.i)
    /\ Len(swap.before) = 5
    /\ swap.i = 2
    /\ script = "batch"

\* C10: verifying a value other than L[i] against the proof for index i and
\* the root returns false, for each of the three verifiers.
C10_OtherLeafRejected ==
    (last.op = "verify" /\ last.leaf # orig[last.index + 1]) => ~last.valid

---------------------------------------------------------------------------
(* Claims about the batch scripts *)

OutOfBounds(v, max) == ~(WideLeq(WideZero, v) /\ WideLeq(v, max))

\* the first field of tx, in the order nonce, timestamp, recipient_count,
\* that is outside its range, "" when all are inside
FirstOffending(tx) ==
    IF OutOfBounds(tx.nonce, UINT64_MAX) THEN "nonce"
    ELSE IF OutOfBounds(tx.timestamp, UINT48_MAX) THEN "timestamp"
    ELSE IF OutOfBounds(tx.recipient_count, UINT32_MAX) THEN "recipient_count"
    ELSE ""

\* the field a range error names, "" for no error or any other error
FieldOfError(err) ==
    CASE err = "nonce exceeds uint64" -> "nonce"
      [] err = "timestamp exceeds uint48" -> "timestamp"
      [] err = "recipient_count exceeds uint32" -> "recipient_count"
      [] OTHER -> ""

\* C5: calculate_tx_hash of both batch scripts fails with the range error
\* of the first field out of range (nonce, timestamp, recipient_count) and
\* raises no range error when all three are in range.
C5_BoundsValidated ==
    hashed.done => FieldOfError(hashed.res.err) = FirstOffending(hashed.tx)

UnHex(hs) == [k \in 1..Len(hs) |-> hs[k].hex]

EntryProofs(run) == [k \in 1..Len(run.proofs_data) |-> run.proofs_data[k].proof]

\* C6: batch_id never influences the commitment: calculate_tx_hash gives the
\* same result for two records that differ only in batch_id, and two record
\* lists that differ only in batch_id values go through the pipeline alike,
\* with the same leaves, the same root and the same proof for every index.
C6_BatchIdIgnored ==
    /\ hashed.done => hashed.res = hashed.res2
    /\ gen[1].pc = gen[2].pc
    /\ gen[1].err = gen[2].err
    /\ gen[1].leaves = gen[2].leaves
    /\ gen[1].root = gen[2].root
    /\ gen[1].merkle_root = gen[2].merkle_root
    /\ EntryProofs(gen[1]) = EntryProofs(gen[2])

\* generate_merkle_data has returned for three records whose batch_id values
\* all differ between the two lists
C6_Witness ==
    /\ gen[1].pc = "done"
    /\ Len(gen[1].transactions) = 3
    /\ \A k \in 1..3 : gen[1].transactions[k].batch_id # gen[2].transactions[k].batch_id
    /\ gen[1].leaves[1] # gen[1].leaves[2]

\* C7 for one run of the pipeline
C7_Run(run) ==
    /\ run.pc = "raised" =>
           (run.tree = <<>> /\ run.root = <<>> /\ run.proofs_data = <<>>)
    /\ run.tree # <<>> =>
           (/\ Len(run.leaves) = Len(run.transactions)
            /\ \A k \in 1..Len(run.leaves) :
                   Ok(run.leaves[k]) = TxHashOf(bscript, run.transactions[k], strict))
    /\ run.pc = "done" =>
           (/\ run.tx_count = Len(run.transactions)
            /\ Len(run.proofs_data) = Len(run.transactions)
            /\ \A k \in 1..Len(run.proofs_data) :
                   LET e == run.proofs_data[k]
                   IN /\ e.index = k - 1
                      /\ e.transaction = run.transactions[k]
                      /\ MerkleTree_verify_proof(e.tx_hash.hex, UnHex(e.proof),
                                                 run.merkle_root.hex)
                      /\ bscript = "generateBatchRoot" => e.valid)

\* C7: the pipeline gives all or nothing: every leaf is computed before the
\* tree is built, so a run that raised has no tree, root or proof; a run that
\* returned has tx_count = number of records and one entry per input index,
\* in input order, whose proof verifies its leaf under the returned root,
\* with valid = true.
C7_AllOrNothing == C7_Run(gen[1]) /\ C7_Run(gen[2])

\* generate_merkle_data has returned for three records
C7_Witness ==
    /\ bscript = "generateBatchRoot"
    /\ gen[1].pc = "done"
    /\ gen[1].tx_count = 3
    /\ Len(gen[1].proofs_data[3].proof) = 1

\* a run of the pipeline has raised in hashing, on its third record
C7_WitnessRaised ==
    /\ gen[1].pc = "raised"
    /\ Len(gen[1].transactions) = 3
    /\ TxHashOf(bscript, gen[1].transactions[1], strict).err = ""
    /\ TxHashOf(bscript, gen[1].transactions[2], strict).err = ""


---------------------------------------------------------------------------
(* Claims about the whitelist scripts *)

\* the 20-byte values of the whitelist, in the order given
WhitelistIds == [k \in 1..Len(wl.whitelist) |-> wl.whitelist[k].id]

\* the values of ids in ascending order
Ascending(ids) ==
    CHOOSE s \in [1..Len(ids) -> AddressIds] :
        /\ \A k \in 1..(Len(ids) - 1) : s[k] <= s[k + 1]
        /\ \A v \in AddressIds :
              Cardinality({k \in 1..Len(ids) : s[k] = v})
                  = Cardinality({k \in 1..Len(ids) : ids[k] = v})

\* keccak256 of the address left-padded to 32 bytes
LeafOfId(id) == keccak(<<0, id>>)

\* the proof the run gives for each address
ProofOfAddress(run) ==
    {[addr |-> run.proofs[k].addr, proof |-> run.proofs[k].proof] :
        k \in 1..Len(run.proofs)}

\* the script ran to its end on both orders of the whitelist
WhitelistDone == wl.pc = "done" /\ wl.runs[1].err = "" /\ wl.runs[2].err = ""

\* C11: for every address list, leaf i of a whitelist tree is the leaf hash
\* of the i-th smallest normalized address, and every order of the same
\* addresses gives the same leaves, the same root and the same proof for
\* each address; in both whitelist scripts.
C11_WhitelistSorted ==
    WhitelistDone =>
        /\ \A r \in 1..2 :
              wl.runs[r].leaves =
                  [k \in 1..Len(wl.whitelist) |-> LeafOfId(Ascending(WhitelistIds)[k])]
        /\ wl.runs[1].leaves = wl.runs[2].leaves
        /\ wl.runs[1].root = wl.runs[2].root
        /\ ProofOfAddress(wl.runs[1]) = ProofOfAddress(wl.runs[2])

---------------------------------------------------------------------------
(* Claims about the build loop *)

\* keccak256(min(a, b) || max(a, b))
Combine(a, b) == IF BytesLess(b, a) THEN keccak(b \o a) ELSE keccak(a \o b)

\* the builder has returned the tree of a list of at least one leaf
BuiltNonEmpty == bld.pc = "done" /\ bld.leaves # <<>>

\* layer 0 is the input, every following layer has ceil(n/2) elements for
\* the n of the layer before it, element k of a layer is combine of elements
\* 2k and 2k+1 of the layer before it when both exist, and the last layer
\* has exactly one element
BuildShape ==
    BuiltNonEmpty =>
        /\ bld.tree[1] = bld.leaves
        /\ \A j \in 2..Len(bld.tree) :
              LET prev == bld.tree[j - 1]
                  cur == bld.tree[j]
              IN /\ Len(cur) = (Len(prev) + 1) \div 2
                 /\ \A k \in 0..(Len(cur) - 1) :
                       2 * k + 1 < Len(prev)
                           => cur[k + 1] = Combine(prev[2 * k + 1], prev[2 * k + 2])
        /\ Len(bld.tree[Len(bld.tree)]) = 1

\* C12: for every non-empty finite leaf sequence the build loop terminates,
\* and the tree it returns has the input as layer 0, each following layer of
\* length ceil(n/2) for the length n of the layer before it, element k of a
\* layer equal to combine of elements 2k and 2k+1 of the layer before it
\* whenever both exist, and a last layer of exactly one element.
C12_BuildTerminates ==
    /\ []BuildShape
    /\ <>(bld.pc = "done")

\* a builder has returned a tree of three layers from an odd number of leaves
C12_Witness ==
    /\ BuiltNonEmpty
    /\ Len(bld.leaves) = 5
    /\ Len(bld.tree) = 4
    /\ Len(bld.tree[2]) = 3
====
